---- MODULE Spec2Model ----
(***************************************************************************)
(* SpikeGeneratorGroup (brian2/input/spikegeneratorgroup.py): the spike    *)
(* schedule, its argument validation, and the checks of before_run.        *)
(*                                                                         *)
(* Times, dt and periods are whole numbers of seconds, so the arithmetic   *)
(* of the source (floating point) is modelled exactly: rounding error is   *)
(* outside the model.  The default period 1e100*second and np.inf are      *)
(* stood for by DefaultPeriod and Inf, two values above every other        *)
(* quantity of the model and above the 1000 s horizon of the period check. *)
(***************************************************************************)
EXTENDS Integers, Sequences, FiniteSets

\* ------------------------------------------------------------- bounds
\* Longest indices/times array passed to the constructor or to set_spikes.
MaxLen == 2
\* Longest schedule of the specifications that construct and only start runs.
MaxEvents == 3

\* Values the callers pass in well-formed calls.
Ns == {1, 2}
IdVals == 0 .. 1
TimeVals == 0 .. 1
DTs == {1, 2}
NowVals == 0 .. 2
\* Wider values, for the specification that exercises _check_args alone.
AnyIds == -1 .. 2
AnyTimes == -1 .. 2

\* ---------------------------------------------------------- constants
\* period=1e100*second, the default of __init__ and set_spikes.
DefaultPeriod == 1000000000
\* np.inf
Inf == 2000000000
\* The horizon of the period heuristic: `if period < 1000`, `1000. / period`.
Horizon == 1000
\* self._previous_dt = None
None == 0

PeriodVals == {1, DefaultPeriod}
AnyPeriods == PeriodVals \cup {-1, 0, 2, 3, 4, 5, 401, 1001}

VARIABLES
    N,                \* variables['N']
    period,           \* variables['period']
    neuron_index,     \* variables['neuron_index']
    spike_time,       \* variables['spike_time']
    spike_number,     \* variables['spike_number']
    _neuron_index,    \* self._neuron_index
    _spike_time,      \* self._spike_time
    _spikes_changed,  \* self._spikes_changed
    _previous_dt,     \* self._previous_dt
    _lastindex,       \* variables['_lastindex']
    last              \* the most recent call and how it ended

vars == <<N, period, neuron_index, spike_time, spike_number, _neuron_index,
          _spike_time, _spikes_changed, _previous_dt, _lastindex, last>>

\* Everything the object holds (all but the record of the call).
object == <<N, period, neuron_index, spike_time, spike_number, _neuron_index,
            _spike_time, _spikes_changed, _previous_dt, _lastindex>>

\* ------------------------------------------------------------ helpers
SeqsUpTo(S, n) == UNION {[1 .. k -> S] : k \in 0 .. n}

\* np.max / np.min of a non-empty array
Max(s) == CHOOSE x \in {s[i] : i \in DOMAIN s} : \A j \in DOMAIN s : s[j] <= x
Min(s) == CHOOSE x \in {s[i] : i \in DOMAIN s} : \A j \in DOMAIN s : x <= s[j]

\* np.arange(n), as the array <<0, ..., n-1>>
arange(n) == [k \in 1 .. n |-> k - 1]

\* lexsort by the times alone, ties left in the order given.
lexsort_times_only(indices, times) ==
    LET n == Len(times)
        Before(i, j) == \/ times[i] < times[j]
                        \/ times[i] = times[j] /\ i < j
        rank(j) == 1 + Cardinality({i \in 1 .. n : Before(i, j)})
    IN  [r \in 1 .. n |-> CHOOSE j \in 1 .. n : rank(j) = r]

\* lexsort with its keys in the other order: by indices, then by times.
lexsort_keys_swapped(indices, times) ==
    LET n == Len(times)
        Before(i, j) == \/ indices[i] < indices[j]
                        \/ indices[i] = indices[j] /\ times[i] < times[j]
                        \/ indices[i] = indices[j] /\ times[i] = times[j] /\ i < j
        rank(j) == 1 + Cardinality({i \in 1 .. n : Before(i, j)})
    IN  [r \in 1 .. n |-> CHOOSE j \in 1 .. n : rank(j) = r]

\* np.lexsort((indices, times)): the permutation that sorts by times, then by
\* indices, stably; I[r] is the (1-based) position of the element of rank r.
lexsort(indices, times) ==
    LET n == Len(times)
        Before(i, j) == \/ times[i] < times[j]
                        \/ times[i] = times[j] /\ indices[i] < indices[j]
                        \/ times[i] = times[j] /\ indices[i] = indices[j] /\ i < j
        rank(j) == 1 + Cardinality({i \in 1 .. n : Before(i, j)})
    IN  [r \in 1 .. n |-> CHOOSE j \in 1 .. n : rank(j) = r]

\* a[I], numpy's indexing of an array by an index array
take(a, I) == [r \in DOMAIN I |-> a[I[r]]]

\* timestep(t, dt) of brian2.core.functions: int((t + 1e-3*dt)/dt)
timestep(t, dt) == (1000 * t + dt) \div (1000 * dt)

\* ------------------------------------------------------ _check_args
Raise(reason) == [err |-> reason, indices |-> <<>>, times |-> <<>>]

\* _check_args accepting the index N itself: `> N` for `>= N`.
_check_args_index_N(indices, times, per, n, sorted) ==
    IF Len(indices) # Len(times) THEN Raise("length_mismatch")
    ELSE IF per < 0 THEN Raise("negative_period")
    ELSE IF Len(times) > 0 /\ per <= Max(times) THEN Raise("period_not_above_max")
    ELSE IF Len(times) > 0 /\ Min(times) < 0 THEN Raise("negative_time")
    ELSE IF Len(indices) > 0 /\ (Min(indices) < 0 \/ Max(indices) > n)
         THEN Raise("index_out_of_range")
    ELSE IF ~sorted
         THEN LET I == lexsort(indices, times)
              IN  [err |-> "ok", indices |-> take(indices, I), times |-> take(times, I)]
         ELSE [err |-> "ok", indices |-> indices, times |-> times]

\* _check_args accepting a period equal to the latest time: `<` for `<=`.
_check_args_period_eq_max(indices, times, per, n, sorted) ==
    IF Len(indices) # Len(times) THEN Raise("length_mismatch")
    ELSE IF per < 0 THEN Raise("negative_period")
    ELSE IF Len(times) > 0 /\ per < Max(times) THEN Raise("period_not_above_max")
    ELSE IF Len(times) > 0 /\ Min(times) < 0 THEN Raise("negative_time")
    ELSE IF Len(indices) > 0 /\ (Min(indices) < 0 \/ Max(indices) >= n)
         THEN Raise("index_out_of_range")
    ELSE IF ~sorted
         THEN LET I == lexsort(indices, times)
              IN  [err |-> "ok", indices |-> take(indices, I), times |-> take(times, I)]
         ELSE [err |-> "ok", indices |-> indices, times |-> times]

\* SpikeGeneratorGroup._check_args: the checks in the order of the source, then
\* the sort; the result is what the method stores and returns.
_check_args(indices, times, per, n, sorted) ==
    IF Len(indices) # Len(times) THEN Raise("length_mismatch")
    ELSE IF per < 0 THEN Raise("negative_period")
    ELSE IF Len(times) > 0 /\ per <= Max(times) THEN Raise("period_not_above_max")
    ELSE IF Len(times) > 0 /\ Min(times) < 0 THEN Raise("negative_time")
    ELSE IF Len(indices) > 0 /\ (Min(indices) < 0 \/ Max(indices) >= n)
         THEN Raise("index_out_of_range")
    ELSE IF ~sorted
         THEN LET I == lexsort(indices, times)
              IN  [err |-> "ok", indices |-> take(indices, I), times |-> take(times, I)]
         ELSE [err |-> "ok", indices |-> indices, times |-> times]

\* ------------------------------------------------------- before_run
\* The period check with np.any for np.all.
period_check_any(per, dt) ==
    IF per < Inf
    THEN IF per < dt THEN "period_smaller_than_dt"
         ELSE IF per < Horizon
              THEN LET n_periods == Horizon \div per
                       periods(k) == k * per
                   IN  IF \E k \in 0 .. n_periods - 1 :
                              timestep(periods(k), dt) % timestep(per, dt) = 0
                       THEN "ok"
                       ELSE "period_not_multiple"
              ELSE "ok"
    ELSE "ok"

\* The period check with the first test against 0 instead of dt.  The modulo is
\* numpy's, which gives 0 for a zero divisor.
period_check_positive_only(per, dt) ==
    IF per < Inf
    THEN IF per <= 0 THEN "period_smaller_than_dt"
         ELSE IF per < Horizon
              THEN LET n_periods == Horizon \div per
                       periods(k) == k * per
                       divisor == timestep(per, dt)
                   IN  IF \A k \in 0 .. n_periods - 1 :
                              \/ divisor = 0
                              \/ timestep(periods(k), dt) % divisor = 0
                       THEN "ok"
                       ELSE "period_not_multiple"
              ELSE "ok"
    ELSE "ok"

\* The checks on the period vs. dt (before_run, first block).
period_check(per, dt) ==
    IF per < Inf
    THEN IF per < dt THEN "period_smaller_than_dt"
         ELSE IF per < Horizon
              THEN LET n_periods == Horizon \div per
                       periods(k) == k * per
                   IN  IF \A k \in 0 .. n_periods - 1 :
                              timestep(periods(k), dt) % timestep(per, dt) = 0
                       THEN "ok"
                       ELSE "period_not_multiple"
              ELSE "ok"
    ELSE "ok"

\* period_check, tabulated once for the periods and timesteps of the model.
period_verdict == [per \in AnyPeriods, dt \in DTs |-> period_check(per, dt)]

\* in_the_past with `<=` for `<`: the events of the current step count as past.
in_the_past_inclusive(times, t, dt) ==
    {i \in 0 .. Len(times) - 1 : timestep(times[i + 1], dt) <= timestep(t, dt)}

\* np.nonzero(timesteps < current_step)[0], as the set of (0-based) positions
in_the_past(times, t, dt) ==
    {i \in 0 .. Len(times) - 1 : timestep(times[i + 1], dt) < timestep(t, dt)}

\* in_the_past[-1]
LastOf(S) == CHOOSE x \in S : \A y \in S : y <= x

\* new_lastindex taking the position of the last past event as 1-based already
\* and adding one again.
new_lastindex_one_too_far(times, t, dt) ==
    LET past == in_the_past(times, t, dt)
    IN  IF past # {} THEN LastOf(past) + 2 ELSE 0

\* The value before_run gives _lastindex when the spikes have changed.
new_lastindex(times, t, dt) ==
    LET past == in_the_past(times, t, dt)
    IN  IF past # {} THEN LastOf(past) + 1 ELSE 0

\* timebins = int32((self._spike_time + 1e-3*dt)/dt)
timebins(times, dt) == [k \in DOMAIN times |-> (1000 * times[k] + dt) \div (1000 * dt)]

\* (np.diff(timebins)==0 and np.diff(self._neuron_index)==0).any()
more_than_one_spike(indices, times, dt) ==
    LET bins == timebins(times, dt)
    IN  \E k \in 1 .. Len(times) - 1 :
            /\ bins[k + 1] - bins[k] = 0
            /\ indices[k + 1] - indices[k] = 0

\* ------------------------------------------------------------ calls
NoArgs == [indices |-> <<>>, times |-> <<>>, period |-> 0, sorted |-> FALSE]
NoRun == [t |-> 0, dt |-> 0, warned |-> FALSE]

Call(op, err, args, run) ==
    [op |-> op, err |-> err, indices |-> args.indices, times |-> args.times,
     period |-> args.period, sorted |-> args.sorted,
     t |-> run.t, dt |-> run.dt, warned |-> run.warned]

\* The state after SpikeGeneratorGroup.__init__ has returned (N >= 1 and
\* _check_args passed: a refused construction leaves no object).
__init__(n, indices, times, per, sorted) ==
    \E r \in {_check_args(indices, times, per, n, sorted)} :
        /\ n >= 1
        /\ r.err = "ok"
        /\ N = n
        /\ _neuron_index = r.indices
        /\ _spike_time = r.times
        /\ _spikes_changed = TRUE
        /\ spike_number = arange(Len(r.indices))
        /\ neuron_index = r.indices
        /\ spike_time = r.times
        /\ _lastindex = 0
        /\ _previous_dt = None
        /\ period = per
        /\ last = Call("init", "ok",
                       [indices |-> indices, times |-> times, period |-> per,
                        sorted |-> sorted], NoRun)

\* set_spikes raising the dirty flag before the arguments are checked.
set_spikes_flag_first(indices, times, per, sorted, keep) ==
    LET args == [indices |-> indices, times |-> times, period |-> per, sorted |-> sorted]
    IN  \E r \in {_check_args(indices, times, per, N, sorted)} :
        IF r.err # "ok"
        THEN /\ last' = Call("set_spikes", r.err, IF keep THEN args ELSE NoArgs, NoRun)
             /\ _spikes_changed' = TRUE
             /\ UNCHANGED <<N, period, neuron_index, spike_time, spike_number,
                            _neuron_index, _spike_time, _previous_dt, _lastindex>>
        ELSE /\ _neuron_index' = r.indices
             /\ _spike_time' = r.times
             /\ _spikes_changed' = TRUE
             /\ period' = per
             /\ neuron_index' = r.indices
             /\ spike_time' = r.times
             /\ spike_number' = arange(Len(r.indices))
             /\ last' = Call("set_spikes", "ok", args, NoRun)
             /\ UNCHANGED <<N, _previous_dt, _lastindex>>

\* set_spikes that forgets to store the period.
set_spikes_keeps_period(indices, times, per, sorted, keep) ==
    LET args == [indices |-> indices, times |-> times, period |-> per, sorted |-> sorted]
    IN  \E r \in {_check_args(indices, times, per, N, sorted)} :
        IF r.err # "ok"
        THEN /\ last' = Call("set_spikes", r.err, IF keep THEN args ELSE NoArgs, NoRun)
             /\ UNCHANGED object
        ELSE /\ _neuron_index' = r.indices
             /\ _spike_time' = r.times
             /\ _spikes_changed' = TRUE
             /\ neuron_index' = r.indices
             /\ spike_time' = r.times
             /\ spike_number' = arange(Len(r.indices))
             /\ last' = Call("set_spikes", "ok", args, NoRun)
             /\ UNCHANGED <<N, period, _previous_dt, _lastindex>>

\* SpikeGeneratorGroup.set_spikes.  The record of the call keeps the arguments
\* of an accepted call; it keeps those of a refused call only when asked to.
set_spikes(indices, times, per, sorted, keep) ==
    LET args == [indices |-> indices, times |-> times, period |-> per, sorted |-> sorted]
    IN  \E r \in {_check_args(indices, times, per, N, sorted)} :
        IF r.err # "ok"
        THEN /\ last' = Call("set_spikes", r.err, IF keep THEN args ELSE NoArgs, NoRun)
             /\ UNCHANGED object
        ELSE /\ _neuron_index' = r.indices
             /\ _spike_time' = r.times
             /\ _spikes_changed' = TRUE
             /\ period' = per
             /\ neuron_index' = r.indices
             /\ spike_time' = r.times
             /\ spike_number' = arange(Len(r.indices))
             /\ last' = Call("set_spikes", "ok", args, NoRun)
             /\ UNCHANGED <<N, _previous_dt, _lastindex>>

\* before_run moving the cursor before it checks the period.
before_run_cursor_first(t, dt) ==
    LET past == in_the_past(_spike_time, t, dt)
        warned == _spikes_changed /\ past # {}
        recheck == _previous_dt = None \/ dt # _previous_dt \/ _spikes_changed
        collide == recheck /\ more_than_one_spike(_neuron_index, _spike_time, dt)
    IN  \E perr \in {period_verdict[period, dt]} :
        /\ _lastindex' = IF _spikes_changed
                           THEN new_lastindex(_spike_time, t, dt)
                           ELSE _lastindex
        /\ IF perr # "ok"
           THEN /\ last' = Call("before_run", perr, NoArgs,
                                [t |-> t, dt |-> dt, warned |-> warned])
                /\ UNCHANGED <<_previous_dt, _spikes_changed>>
           ELSE IF collide
                THEN /\ last' = Call("before_run", "more_than_one_spike", NoArgs,
                                     [t |-> t, dt |-> dt, warned |-> warned])
                     /\ UNCHANGED <<_previous_dt, _spikes_changed>>
                ELSE /\ last' = Call("before_run", "ok", NoArgs,
                                     [t |-> t, dt |-> dt, warned |-> warned])
                     /\ _previous_dt' = IF recheck THEN dt ELSE _previous_dt
                     /\ _spikes_changed' = IF recheck THEN FALSE ELSE _spikes_changed
        /\ UNCHANGED <<N, period, neuron_index, spike_time, spike_number,
                       _neuron_index, _spike_time>>

\* before_run moving the cursor whenever it is about to scan for collisions
\* (the two `if`s merged), not only when the spikes have changed.
before_run_cursor_on_recheck(t, dt) ==
    LET past == in_the_past(_spike_time, t, dt)
        recheck == _previous_dt = None \/ dt # _previous_dt \/ _spikes_changed
        warned == recheck /\ past # {}
        collide == recheck /\ more_than_one_spike(_neuron_index, _spike_time, dt)
    IN  \E perr \in {period_verdict[period, dt]} :
        IF perr # "ok"
        THEN /\ last' = Call("before_run", perr, NoArgs,
                             [t |-> t, dt |-> dt, warned |-> FALSE])
             /\ UNCHANGED object
        ELSE /\ _lastindex' = IF recheck
                                THEN new_lastindex(_spike_time, t, dt)
                                ELSE _lastindex
             /\ IF collide
                THEN /\ last' = Call("before_run", "more_than_one_spike", NoArgs,
                                     [t |-> t, dt |-> dt, warned |-> warned])
                     /\ UNCHANGED <<_previous_dt, _spikes_changed>>
                ELSE /\ last' = Call("before_run", "ok", NoArgs,
                                     [t |-> t, dt |-> dt, warned |-> warned])
                     /\ _previous_dt' = IF recheck THEN dt ELSE _previous_dt
                     /\ _spikes_changed' = IF recheck THEN FALSE ELSE _spikes_changed
             /\ UNCHANGED <<N, period, neuron_index, spike_time, spike_number,
                            _neuron_index, _spike_time>>

\* before_run recording the dt and clearing the dirty flag before the collision
\* scan instead of after it.
before_run_cache_first(t, dt) ==
    LET past == in_the_past(_spike_time, t, dt)
        warned == _spikes_changed /\ past # {}
        recheck == _previous_dt = None \/ dt # _previous_dt \/ _spikes_changed
        collide == recheck /\ more_than_one_spike(_neuron_index, _spike_time, dt)
    IN  \E perr \in {period_verdict[period, dt]} :
        IF perr # "ok"
        THEN /\ last' = Call("before_run", perr, NoArgs,
                             [t |-> t, dt |-> dt, warned |-> FALSE])
             /\ UNCHANGED object
        ELSE /\ _lastindex' = IF _spikes_changed
                                THEN new_lastindex(_spike_time, t, dt)
                                ELSE _lastindex
             /\ _previous_dt' = IF recheck THEN dt ELSE _previous_dt
             /\ _spikes_changed' = IF recheck THEN FALSE ELSE _spikes_changed
             /\ last' = Call("before_run",
                             IF collide THEN "more_than_one_spike" ELSE "ok", NoArgs,
                             [t |-> t, dt |-> dt, warned |-> warned])
             /\ UNCHANGED <<N, period, neuron_index, spike_time, spike_number,
                            _neuron_index, _spike_time>>

\* before_run scanning for collisions only when the spikes have changed or no
\* scan has run yet, not when dt differs from the last checked dt.
before_run_ignores_dt_change(t, dt) ==
    LET past == in_the_past(_spike_time, t, dt)
        warned == _spikes_changed /\ past # {}
        recheck == _previous_dt = None \/ _spikes_changed
        collide == recheck /\ more_than_one_spike(_neuron_index, _spike_time, dt)
    IN  \E perr \in {period_verdict[period, dt]} :
        IF perr # "ok"
        THEN /\ last' = Call("before_run", perr, NoArgs,
                             [t |-> t, dt |-> dt, warned |-> FALSE])
             /\ UNCHANGED object
        ELSE /\ _lastindex' = IF _spikes_changed
                                THEN new_lastindex(_spike_time, t, dt)
                                ELSE _lastindex
             /\ IF collide
                THEN /\ last' = Call("before_run", "more_than_one_spike", NoArgs,
                                     [t |-> t, dt |-> dt, warned |-> warned])
                     /\ UNCHANGED <<_previous_dt, _spikes_changed>>
                ELSE /\ last' = Call("before_run", "ok", NoArgs,
                                     [t |-> t, dt |-> dt, warned |-> warned])
                     /\ _previous_dt' = IF recheck THEN dt ELSE _previous_dt
                     /\ _spikes_changed' = IF recheck THEN FALSE ELSE _spikes_changed
             /\ UNCHANGED <<N, period, neuron_index, spike_time, spike_number,
                            _neuron_index, _spike_time>>

\* SpikeGeneratorGroup.before_run, with the clock at time t and step dt
before_run(t, dt) ==
    LET past == in_the_past(_spike_time, t, dt)
        warned == _spikes_changed /\ past # {}
        recheck == _previous_dt = None \/ dt # _previous_dt \/ _spikes_changed
        collide == recheck /\ more_than_one_spike(_neuron_index, _spike_time, dt)
    IN  \E perr \in {period_verdict[period, dt]} :
        IF perr # "ok"
        THEN /\ last' = Call("before_run", perr, NoArgs,
                             [t |-> t, dt |-> dt, warned |-> FALSE])
             /\ UNCHANGED object
        ELSE /\ _lastindex' = IF _spikes_changed
                                THEN new_lastindex(_spike_time, t, dt)
                                ELSE _lastindex
             /\ IF collide
                THEN /\ last' = Call("before_run", "more_than_one_spike", NoArgs,
                                     [t |-> t, dt |-> dt, warned |-> warned])
                     /\ UNCHANGED <<_previous_dt, _spikes_changed>>
                ELSE /\ last' = Call("before_run", "ok", NoArgs,
                                     [t |-> t, dt |-> dt, warned |-> warned])
                     /\ _previous_dt' = IF recheck THEN dt ELSE _previous_dt
                     /\ _spikes_changed' = IF recheck THEN FALSE ELSE _spikes_changed
             /\ UNCHANGED <<N, period, neuron_index, spike_time, spike_number,
                            _neuron_index, _spike_time>>

\* --------------------------------------------------- specifications
\* The arguments the callers pass: arrays of one length over the values above
\* with each period and each value of `sorted`, and one call for each way of
\* passing arguments of the wrong shape or sign.
IndexArrays == SeqsUpTo(IdVals, MaxLen)
TimeArrays == SeqsUpTo(TimeVals, MaxLen)
GoodArgs ==
    {a \in IndexArrays \X TimeArrays \X PeriodVals \X BOOLEAN : Len(a[1]) = Len(a[2])}
BadArgs ==
    {<<(<<0>>), (<<>>), DefaultPeriod, FALSE>>,
     <<(<<>>), (<<0>>), DefaultPeriod, FALSE>>,
     <<(<<>>), (<<>>), -1, FALSE>>,
     <<(<<0>>), (<<-1>>), DefaultPeriod, FALSE>>,
     <<(<<2>>), (<<0>>), DefaultPeriod, FALSE>>}
Args == GoodArgs \cup BadArgs

\* Construction, then any sequence of set_spikes and run starts.
Init ==
    \E n \in Ns, a \in Args : __init__(n, a[1], a[2], a[3], a[4])

SetSpikes ==
    \E a \in Args : set_spikes(a[1], a[2], a[3], a[4], FALSE)

BeforeRun == \E t \in NowVals, dt \in DTs : before_run(t, dt)

Next == SetSpikes \/ BeforeRun

Spec == Init /\ [][Next]_vars

\* Construction with longer schedules, then run starts only.
InitRuns ==
    \E n \in Ns, indices \in SeqsUpTo(IdVals, MaxEvents),
       times \in SeqsUpTo(TimeVals, MaxEvents), per \in AnyPeriods, sorted \in BOOLEAN :
        __init__(n, indices, times, per, sorted)

SpecRuns == InitRuns /\ [][BeforeRun]_vars

\* One set_spikes call on a fresh group, over the wider argument values.
InitArgs == \E n \in Ns : __init__(n, <<>>, <<>>, DefaultPeriod, FALSE)

SetSpikesAny ==
    /\ last.op = "init"
    /\ \E indices \in SeqsUpTo(AnyIds, MaxLen), times \in SeqsUpTo(AnyTimes, MaxLen),
          per \in AnyPeriods, sorted \in BOOLEAN :
           set_spikes(indices, times, per, sorted, TRUE)

SpecArgs == InitArgs /\ [][SetSpikesAny]_vars

\* ------------------------------------------------------------ claims
\* Ascending by time and, among equal times, by index.
IsSorted(indices, times) ==
    \A k \in 1 .. Len(times) - 1 :
        \/ times[k] < times[k + 1]
        \/ times[k] = times[k + 1] /\ indices[k] <= indices[k + 1]

StoredSorted == IsSorted(neuron_index, spike_time) /\ IsSorted(_neuron_index, _spike_time)

\* Two events, anywhere in the schedule, of one index in one bin of width dt.
SameBinTwice(indices, times, dt) ==
    \E i, j \in DOMAIN times :
        /\ i < j
        /\ indices[i] = indices[j]
        /\ timestep(times[i], dt) = timestep(times[j], dt)

RunStarted == last.op = "before_run"
Stored == last.op \in {"init", "set_spikes"} /\ last.err = "ok"
Refused == last.op = "set_spikes" /\ last.err # "ok"

\* C1: on a schedule sorted by (time, index), a run start is refused for a
\* collision exactly when some two events of one index, adjacent or not, share
\* a bin; so after a run start that succeeded no index has two events in a bin.
C1_CollisionIffSameBinTwice ==
    (RunStarted /\ StoredSorted /\ last.err \in {"ok", "more_than_one_spike"})
        => (last.err = "more_than_one_spike"
                <=> SameBinTwice(_neuron_index, _spike_time, last.dt))

\* C2 as stated: the stored schedule is sorted in every reachable state,
\* whatever arguments the validator accepted.
C2_AlwaysSorted == StoredSorted

\* The call that stored the schedule asked for the sort, or passed sorted arrays.
OrderKept(c) == ~c.sorted \/ IsSorted(c.indices, c.times)

\* C2, amended: the schedule stored by the constructor or by set_spikes is sorted
\* when the call passed sorted=False, or sorted=True with arrays already in
\* (time, index) order; refused calls and run starts leave a sorted schedule sorted.
C2_SortedUnlessTrusted ==
    /\ (Stored /\ OrderKept(last)) => StoredSorted
    /\ [][/\ (last'.op = "set_spikes" /\ last'.err = "ok" /\ OrderKept(last'))
                => StoredSorted'
          /\ (last'.op = "before_run" \/ last'.err # "ok")
                => (StoredSorted => StoredSorted')]_vars

C2_Witness ==
    /\ last.op = "set_spikes" /\ last.err = "ok"
    /\ ~last.sorted
    /\ ~IsSorted(last.indices, last.times)
    /\ StoredSorted

\* C3: every stored event has its index in [0, N) and a time >= 0 that is below
\* the period, in both copies of the schedule, in every reachable state.
C3_EventsInRange ==
    /\ Len(neuron_index) = Len(spike_time)
    /\ _neuron_index = neuron_index /\ _spike_time = spike_time
    /\ \A k \in DOMAIN spike_time :
        /\ 0 <= neuron_index[k] /\ neuron_index[k] < N
        /\ spike_time[k] >= 0
        /\ period < Inf => spike_time[k] < period

C3_Witness ==
    /\ Refused /\ last.err = "index_out_of_range"
    /\ Len(spike_time) = MaxLen
    /\ period < Horizon
    /\ \E k \in DOMAIN neuron_index : neuron_index[k] = N - 1

\* The checks of the validator, each as the condition it requires.
LengthsMatch(c) == Len(c.indices) = Len(c.times)
PeriodSignOk(c) == c.period >= 0 /\ (c.period = 0 => Len(c.times) = 0)
PeriodAboveMax(c) == Len(c.times) > 0 => \A k \in DOMAIN c.times : c.period > c.times[k]
TimesNonNegative(c) == \A k \in DOMAIN c.times : c.times[k] >= 0
IdsInRange(c) == \A k \in DOMAIN c.indices : c.indices[k] \in 0 .. N - 1

Accepted(c) ==
    /\ LengthsMatch(c) /\ PeriodSignOk(c) /\ PeriodAboveMax(c)
    /\ TimesNonNegative(c) /\ IdsInRange(c)

\* C4 as stated: the call succeeds exactly when all five checks pass, and a
\* refused call reports the first check, in the order length, period sign or
\* zero, period against the latest time, negative time, index range, that fails.
C4_FirstViolatedCheck ==
    last.op = "set_spikes" =>
        last.err = IF ~LengthsMatch(last) THEN "length_mismatch"
                   ELSE IF ~PeriodSignOk(last) THEN "negative_period"
                   ELSE IF ~PeriodAboveMax(last) THEN "period_not_above_max"
                   ELSE IF ~TimesNonNegative(last) THEN "negative_time"
                   ELSE IF ~IdsInRange(last) THEN "index_out_of_range"
                   ELSE "ok"

\* C4, amended: the call succeeds exactly when all five checks pass; a refused
\* call reports the first failing check in the order length, period < 0,
\* period <= latest time, negative time, index range.  A zero period with
\* events has no reason of its own and is reported by the later two.
C4_AcceptsAndReports ==
    last.op = "set_spikes" =>
        /\ last.err = "ok" <=> Accepted(last)
        /\ last.err = IF ~LengthsMatch(last) THEN "length_mismatch"
                      ELSE IF last.period < 0 THEN "negative_period"
                      ELSE IF ~PeriodAboveMax(last) THEN "period_not_above_max"
                      ELSE IF ~TimesNonNegative(last) THEN "negative_time"
                      ELSE IF ~IdsInRange(last) THEN "index_out_of_range"
                      ELSE "ok"

C4_Witness ==
    /\ Refused /\ last.err = "negative_time"
    /\ last.period = 0
    /\ \E k \in DOMAIN last.indices : last.indices[k] = N

\* C5: a refused set_spikes leaves the object exactly as it was: schedule,
\* period, spike_number, dirty flag, last checked dt and cursor.
C5_RefusedChangesNothing ==
    [][(last'.op = "set_spikes" /\ last'.err # "ok") => UNCHANGED object]_vars

C5_Witness ==
    /\ Refused
    /\ ~_spikes_changed
    /\ _lastindex > 0
    /\ Len(spike_time) > 0

\* How often the event e occurs in the arrays.
EventCount(indices, times, e) ==
    Cardinality({k \in DOMAIN times : <<indices[k], times[k]>> = e})

\* The two pairs of arrays hold the same events, each as often.
SameEvents(i1, t1, i2, t2) ==
    /\ Len(i1) = Len(i2) /\ Len(t1) = Len(t2)
    /\ \A k \in DOMAIN t1 :
        EventCount(i1, t1, <<i1[k], t1[k]>>) = EventCount(i2, t2, <<i1[k], t1[k]>>)

\* C6: after a successful set_spikes the stored schedule is as long as the
\* arrays passed and holds exactly their events, spike_number is 0..M-1, and
\* the period is the one passed, whatever was stored before.
C6_ReplaceDiscardsOld ==
    (last.op = "set_spikes" /\ last.err = "ok") =>
        /\ Len(neuron_index) = Len(last.indices)
        /\ Len(spike_time) = Len(last.times)
        /\ SameEvents(neuron_index, spike_time, last.indices, last.times)
        /\ SameEvents(_neuron_index, _spike_time, last.indices, last.times)
        /\ spike_number = [k \in 1 .. Len(last.indices) |-> k - 1]
        /\ period = last.period

\* A shorter schedule has replaced one that a run had walked to its end.
C6_Witness ==
    /\ last.op = "set_spikes" /\ last.err = "ok"
    /\ Len(spike_time) >= 1
    /\ _lastindex > Len(spike_time)
    /\ period = DefaultPeriod

\* sort(X): the arrays of the call in ascending (time, index) order.
Perms(n) == {f \in [1 .. n -> 1 .. n] : \A i, j \in 1 .. n : i # j => f[i] # f[j]}
SortOf(c) ==
    LET f == CHOOSE g \in Perms(Len(c.times)) : IsSorted(take(c.indices, g), take(c.times, g))
    IN  [indices |-> take(c.indices, f), times |-> take(c.times, f)]

\* C7: what a call with sorted=False has stored is what the call with the
\* sorted arrays and sorted=True is accepted with and stores: the same
\* indices, times and spike_number, and the dirty flag raised.
C7_SortThenTrustSame ==
    (Stored /\ ~last.sorted) =>
        LET y == SortOf(last)
            r == _check_args(y.indices, y.times, last.period, N, TRUE)
        IN  /\ r.err = "ok"
            /\ neuron_index = r.indices /\ spike_time = r.times
            /\ _neuron_index = r.indices /\ _spike_time = r.times
            /\ spike_number = arange(Len(r.indices))
            /\ _spikes_changed

C7_Witness ==
    /\ last.op = "set_spikes" /\ last.err = "ok"
    /\ ~last.sorted
    /\ Len(last.times) = MaxLen
    /\ last.times[1] = last.times[2]
    /\ last.indices[1] > last.indices[2]

FinitePeriod == period # DefaultPeriod /\ period < Inf

C9_PeriodCheckedFirst ==
    [][(last'.op = "before_run" /\ period < Inf /\ period < last'.dt)
            => /\ last'.err = "period_smaller_than_dt"
               /\ ~last'.warned
               /\ UNCHANGED object]_vars

\* Refused on a clean schedule, checked before at another dt, with past events.
C9_Witness ==
    /\ RunStarted /\ last.err = "period_smaller_than_dt"
    /\ ~_spikes_changed
    /\ _previous_dt # None /\ _previous_dt # last.dt
    /\ Len(spike_time) > 0
    /\ in_the_past(_spike_time, last.t, last.dt) # {}

\* The cursor splits the schedule at the step of t: the events before it lie in
\* earlier steps, the events from it on do not.
CursorSplits(times, cursor, t, dt) ==
    /\ cursor \in 0 .. Len(times)
    /\ \A k \in DOMAIN times :
        /\ k <= cursor => timestep(times[k], dt) < timestep(t, dt)
        /\ k > cursor => timestep(times[k], dt) >= timestep(t, dt)

\* The run start got past the period check.
PeriodPassed(c) == c.op = "before_run" /\ c.err \in {"ok", "more_than_one_spike"}

\* C10 as stated: a run start on a dirty schedule leaves the cursor at the
\* first event whose step is not before the step of t.
C10_CursorAtFirstDue ==
    [][(PeriodPassed(last') /\ _spikes_changed)
            => CursorSplits(spike_time', _lastindex', last'.t, last'.dt)]_vars

TimeSorted(times) == \A k \in 1 .. Len(times) - 1 : times[k] <= times[k + 1]

\* C10, amended: a run start on a dirty schedule that passes the period check
\* and whose schedule is in ascending time order leaves the cursor at the first
\* event whose step is not before the step of t.
C10_CursorAtFirstDueIfSorted ==
    [][(PeriodPassed(last') /\ _spikes_changed /\ TimeSorted(_spike_time))
            => CursorSplits(spike_time', _lastindex', last'.t, last'.dt)]_vars

C10_Witness ==
    /\ RunStarted /\ last.err = "ok" /\ last.warned
    /\ TimeSorted(spike_time)
    /\ 0 < _lastindex /\ _lastindex < Len(spike_time)

\* C11 as stated: the cursor lies in 0 .. M, M the length of the stored
\* schedule, in every reachable state.
C11_CursorInRange == _lastindex \in 0 .. Len(_spike_time)

\* C11, amended: the cursor is never negative; it lies in 0 .. M after
\* construction, after every run start on a dirty schedule that got past the
\* period check, and in every state whose schedule is clean; refused calls and
\* run starts that do not move it leave the schedule's length alone.  (An
\* accepted set_spikes leaves the cursor where it was, whatever the new M.)
C11_CursorInRangeOnceRun ==
    /\ _lastindex >= 0
    /\ last.op = "init" => _lastindex \in 0 .. Len(_spike_time)
    /\ ~_spikes_changed => _lastindex \in 0 .. Len(_spike_time)
    /\ [][/\ (PeriodPassed(last') /\ _spikes_changed)
                => _lastindex' \in 0 .. Len(_spike_time')
          /\ (last'.op = "set_spikes" /\ last'.err = "ok")
                => _lastindex' = _lastindex
          /\ (last'.op = "before_run" \/ last'.err # "ok")
                => Len(_spike_time') = Len(_spike_time)]_vars

\* A run start on a replaced schedule found every event in the past.
C11_Witness ==
    /\ RunStarted /\ last.err = "ok" /\ last.warned
    /\ ~_spikes_changed
    /\ _lastindex = Len(_spike_time)
    /\ Len(_spike_time) = MaxLen

\* C12 as stated, taken on schedules in ascending time order and on run starts
\* that follow a run start at the same or an earlier time: every successful run
\* start, also one on a clean schedule or at another dt, leaves the cursor at
\* the first event whose step is not before the step of t.
C12_CursorRecomputedEveryRun ==
    [][(/\ last'.op = "before_run" /\ last'.err = "ok"
        /\ last.op = "before_run" /\ last.t <= last'.t
        /\ TimeSorted(_spike_time))
            => CursorSplits(spike_time', _lastindex', last'.t, last'.dt)]_vars

\* C12, amended: a successful run start on a dirty schedule in ascending time
\* order leaves the cursor at the first event whose step is not before the
\* step of t; a successful run start on a clean schedule leaves the cursor
\* where it was, whatever t and dt are.
C12_CursorRecomputedWhenDirty ==
    [][(last'.op = "before_run" /\ last'.err = "ok")
            => IF _spikes_changed
               THEN TimeSorted(_spike_time)
                        => CursorSplits(spike_time', _lastindex', last'.t, last'.dt)
               ELSE _lastindex' = _lastindex]_vars

\* A run start at another dt succeeded on a sorted schedule (a clean one, by
\* the above) and the cursor is not at the first due event.
C12_Witness ==
    /\ RunStarted /\ last.err = "ok"
    /\ TimeSorted(_spike_time)
    /\ _lastindex <= Len(_spike_time)
    /\ ~CursorSplits(_spike_time, _lastindex, last.t, last.dt)

\* Some stored event lies in a step before the step of the run's start.
PastEvents(c) == in_the_past(_spike_time, c.t, c.dt) # {}

\* C13 as stated, taken on run starts that succeed and that follow a run start
\* at the same or an earlier time: the warning is given exactly when some event
\* lies before the start of the run.
C13_WarnsIffPastEvents ==
    [][(/\ last'.op = "before_run" /\ last'.err = "ok"
        /\ last.op = "before_run" /\ last.t <= last'.t)
            => (last'.warned <=> PastEvents(last'))]_vars

\* C13, amended: a run start gives the warning exactly when the schedule is
\* dirty, the period check passes and some event lies before the start of the
\* run; with or without the warning, the outcome is that of the period check
\* and, if that passes, of the collision scan when one is due.
C13_WarnsIffDirtyPastEvents ==
    [][last'.op = "before_run" =>
        LET perr == period_verdict[period, last'.dt]
            recheck == _previous_dt = None \/ last'.dt # _previous_dt \/ _spikes_changed
        IN  /\ last'.warned <=> (_spikes_changed /\ perr = "ok" /\ PastEvents(last'))
            /\ last'.err = IF perr # "ok" THEN perr
                           ELSE IF recheck /\ more_than_one_spike(_neuron_index,
                                                                  _spike_time, last'.dt)
                                THEN "more_than_one_spike"
                                ELSE "ok"]_vars

\* The warning was given and the run start was then refused for a collision.
C13_Witness ==
    /\ RunStarted /\ last.err = "more_than_one_spike"
    /\ last.warned
    /\ PastEvents(last)

\* C14: the dirty flag is up after construction and after every accepted
\* set_spikes; it goes down only in a run start that succeeds and whose
\* schedule has no collision at that run's dt; after every successful run start
\* it is down and the last checked dt is the run's dt; a run start refused for a
\* collision leaves the flag and the last checked dt as they were.
C14_CacheDiscipline ==
    /\ Stored => _spikes_changed
    /\ (RunStarted /\ last.err = "ok") => (~_spikes_changed /\ _previous_dt = last.dt)
    /\ [][/\ (_spikes_changed /\ ~_spikes_changed')
                => /\ last'.op = "before_run" /\ last'.err = "ok"
                   /\ ~more_than_one_spike(_neuron_index, _spike_time, last'.dt)
          /\ (last'.op = "before_run" /\ last'.err = "more_than_one_spike")
                => UNCHANGED <<_spikes_changed, _previous_dt>>]_vars

\* A clean schedule, checked at one dt, was refused for a collision at another.
C14_Witness ==
    /\ RunStarted /\ last.err = "more_than_one_spike"
    /\ ~_spikes_changed
    /\ _previous_dt # None /\ _previous_dt # last.dt

\* The stored schedule has an adjacent pair of one index in one bin of width dt.
Collides(dt) == more_than_one_spike(_neuron_index, _spike_time, dt)

MultiplesBelowHorizon(per) == {k \in 0 .. (Horizon - 1) \div per : k * per < Horizon}

\* C16: with a finite period >= dt, the run start is refused for the period not
\* being a multiple of dt exactly when some k >= 0 with k*period < 1000, the
\* largest such k included, has timestep(k*period, dt) not a multiple of
\* timestep(period, dt).
C16_EveryMultipleBelowHorizon ==
    (RunStarted /\ FinitePeriod /\ period >= last.dt) =>
        (last.err = "period_not_multiple"
            <=> \E k \in MultiplesBelowHorizon(period) :
                    timestep(k * period, last.dt) % timestep(period, last.dt) # 0)

\* C17: a run start with a finite period below dt (a period of 0 included) is
\* refused for that, and every run start that got past that test with a period
\* below 1000, and so takes the modulo, has a divisor timestep(period, dt) of
\* at least 1.
C17_DivisorAtLeastOne ==
    (RunStarted /\ period < Inf) =>
        /\ period < last.dt => last.err = "period_smaller_than_dt"
        /\ (period < Horizon /\ last.err # "period_smaller_than_dt")
                => timestep(period, last.dt) >= 1

\* The modulo was taken, with a divisor of 2, and decided the run start.
C17_Witness ==
    /\ RunStarted /\ last.err = "period_not_multiple"
    /\ timestep(period, last.dt) = 2

====
